---- MODULE Spec2Model ----
(***************************************************************************)
(* Invoice numbering and lifecycle of backend/server.py.                   *)
(*                                                                         *)
(* The document store holds two collections: settings (one document per    *)
(* tenant, created lazily) and invoices.  Every request handler is a       *)
(* coroutine: each awaited store operation is one atomic step, and the     *)
(* steps of different requests interleave freely.                          *)
(***************************************************************************)
EXTENDS Integers, Sequences, FiniteSets, Bags, TLC

\* ------------------------------------------------------------------ bounds
Tenants == {"u1", "u2"}
\* invoices created in one run (ids that uuid4 hands out)
MaxInv == 3
\* requests of one run of Spec
MaxReq == 3
\* requests of one run of SeqSpec
MaxSeqReq == 4
\* requests of one run of AllocSpec
MaxAlloc == 3
\* requests of one run of FirstAccessSpec
MaxFirst == 3
\* requests of one run of FailSpec
MaxFailReq == 3
\* requests of one run of RoundTripSpec
MaxTripReq == 4
\* requests of one run of NumberingSpec
MaxNumReq == 3
\* requests of one run of EmailSpec
MaxMailReq == 3

\* ------------------------------------------------------- program constants
\* Settings.invoice_counter default
DefaultCounter == 1
\* the width of {counter:04d}
PadWidth == 4

DefaultPrefix == "INV"
DefaultCompany == "IMAGICITY"

VARIABLES
    settings,   \* db.settings: sequence of documents, in natural (insertion) order
    invoices,   \* db.invoices: set of documents
    reqs,       \* the requests in flight: a bag of handler frames
    nextId,     \* the next fresh id uuid4 hands out (also the creation clock)
    resp,       \* history: the last response sent to each tenant
    allocLog,   \* history: per tenant, the allocations that returned 200, in order
    nreq        \* history: per tenant, the number of requests received

vars == <<settings, invoices, reqs, nextId, resp, allocLog, nreq>>

\* ------------------------------------------------------------- formatting
RECURSIVE ZeroPad(_, _)
\* Python's zero padding of a non-negative decimal to a minimum width
ZeroPad(s, width) == IF Len(s) >= width THEN s ELSE ZeroPad("0" \o s, width)

\* mutant: the counter is not zero padded
FormatNumberUnpadded(prefix, counter) == prefix \o "-" \o ToString(counter)

\* f"{prefix}-{counter:04d}"
FormatNumber(prefix, counter) == prefix \o "-" \o ZeroPad(ToString(counter), PadWidth)

\* --------------------------------------------------------------- settings
SettingsKeys == {"invoice_prefix", "invoice_counter", "company_name"}

\* Settings(user_id=u).model_dump(): every field present, at its default
DefaultSettings(u) ==
    [user_id |-> u, has |-> SettingsKeys, invoice_prefix |-> DefaultPrefix,
     invoice_counter |-> DefaultCounter, company_name |-> DefaultCompany]

\* indices of the settings documents matching {"user_id": u}
SettingsMatches(u) == {k \in 1..Len(settings) : settings[k].user_id = u}

Min(S) == CHOOSE x \in S : \A y \in S : x <= y

\* db.settings.find_one({"user_id": u}): the first match in natural order, as a
\* set holding at most one document
FindSettings(u) ==
    IF SettingsMatches(u) = {} THEN {} ELSE {settings[Min(SettingsMatches(u))]}

\* settings_doc['invoice_prefix'] and settings_doc['invoice_counter'] both exist
HasNumbering(doc) == {"invoice_prefix", "invoice_counter"} \subseteq doc.has

\* mutant: the increment is lost
IncDocStuck(doc) == doc

\* mutant: the increment is applied twice
IncDocTwice(doc) ==
    IF "invoice_counter" \in doc.has
    THEN [doc EXCEPT !.invoice_counter = @ + 2]
    ELSE [doc EXCEPT !.invoice_counter = 2, !.has = @ \cup {"invoice_counter"}]

\* {"$inc": {"invoice_counter": 1}} on one document: a missing field is created
\* holding the increment
IncDoc(doc) ==
    IF "invoice_counter" \in doc.has
    THEN [doc EXCEPT !.invoice_counter = @ + 1]
    ELSE [doc EXCEPT !.invoice_counter = 1, !.has = @ \cup {"invoice_counter"}]

\* mutant: the increment is not scoped to the tenant
IncCounterAllTenants(u) == [k \in 1..Len(settings) |-> IncDoc(settings[k])]

\* mutant: the update_one of the increment matches nothing
IncCounterNoMatch(u) == settings

\* db.settings.update_one({"user_id": u}, {"$inc": {"invoice_counter": 1}}):
\* the first match is updated, nothing happens without a match
IncCounter(u) ==
    IF SettingsMatches(u) = {} THEN settings
    ELSE [settings EXCEPT ![Min(SettingsMatches(u))] = IncDoc(@)]

\* --------------------------------------------------------------- invoices
InvoiceTypes == {"invoice", "quotation"}
Totals == {100, 200}
\* db.clients: the client routes are outside the model, so the collection is
\* the same in every state: one client of each tenant with an e-mail address,
\* and one without
clients ==
    { [id |-> "c1", user_id |-> "u1", email |-> "c1@example.com"],
      [id |-> "c2", user_id |-> "u2", email |-> "c2@example.com"],
      [id |-> "c3", user_id |-> "u2", email |-> ""] }
\* the client ids a body can carry: those of the clients, and one of no client
ClientIds == {c.id : c \in clients} \cup {"c0"}
\* InvoiceCreate: the payload of create and update (invoice_type, client_id and
\* total, one representative of the caller-computed fields)
Payloads == [invoice_type : InvoiceTypes, total : Totals, client_id : ClientIds]
\* the bodies create is driven with (both types, one total, one client) and
\* those update is driven with (both types, the other total, the same client)
CreatePayloads == {p \in Payloads : p.total = 100 /\ p.client_id = "c1"}
UpdatePayloads == {p \in Payloads : p.total = 200 /\ p.client_id = "c1"}
\* the bodies create is driven with where e-mails are sent: every client id
EmailPayloads == {p \in Payloads : p.total = 100 /\ p.invoice_type = "invoice"}
NoPayload == [invoice_type |-> "", total |-> 0, client_id |-> ""]

\* mutant: the tenant is missing from the filter
FindInvoiceAnyTenant(id, u) == {d \in invoices : d.id = id}

\* db.invoices.find_one({"id": id, "user_id": u}), as a set of at most one document
FindInvoice(id, u) == {d \in invoices : d.id = id /\ d.user_id = u}

\* db.invoices.find_one({"id": id}): no tenant in the filter
FindInvoiceById(id) == {d \in invoices : d.id = id}

\* mutant: invoice_type is missing from the filter
FindQuotationAnyType(id, u) == {d \in invoices : d.id = id /\ d.user_id = u}

\* db.invoices.find_one({"id": id, "user_id": u, "invoice_type": "quotation"})
FindQuotation(id, u) == {d \in FindInvoice(id, u) : d.invoice_type = "quotation"}

\* mutant: the list leaves out the quotations
ListInvoicesOfTypeInvoice(u) ==
    {d \in invoices : d.user_id = u /\ d.invoice_type = "invoice"}

\* db.invoices.find({"user_id": u})
ListInvoices(u) == {d \in invoices : d.user_id = u}

\* ---------------------------------------------------------------- requests
\* The frame of a request in flight: op, the authenticated tenant, the invoice
\* id of the path (or the id generated by create), the payload, the next store
\* operation (pc), the invoice_number computed or read, and a value kept from a
\* document read (old: the invoice_number of convert's local `quotation`, the
\* e-mail address of send-email's local `client`).
Req(op, u, id, p, pc, number, old) ==
    [op |-> op, user |-> u, id |-> id, payload |-> p, pc |-> pc,
     number |-> number, old |-> old]

InFlight == BagToSet(reqs)
Idle(u) == \A r \in InFlight : r.user # u

\* the response of a handler: HTTP status and the documents of the body
Response(op, id, status, ret) == [op |-> op, id |-> id, status |-> status, ret |-> ret]
NoResponse == Response("none", 0, 0, {})

\* a request arrives: its handler runs to its first await
Arrive(u) == nreq' = [nreq EXCEPT ![u] = @ + 1]
\* ... and is suspended there
Suspend(r) == reqs' = reqs (+) SetToBag({r})
\* a suspended handler runs to its next await
Resume(r, r2) == reqs' = (reqs (-) SetToBag({r})) (+) SetToBag({r2})
\* a suspended handler runs to its end
Return(r) == reqs' = reqs (-) SetToBag({r})
\* the response goes out
Respond(u, op, id, status, ret) ==
    resp' = [resp EXCEPT ![u] = Response(op, id, status, ret)]
\* a create or convert returned 200
LogAlloc(u, op, id, type, number) ==
    allocLog' = [allocLog EXCEPT
                   ![u] = Append(@, [op |-> op, id |-> id, type |-> type,
                                     number |-> number])]

RECURSIVE SumOver(_, _)
SumOver(f, S) ==
    IF S = {} THEN 0
    ELSE LET x == CHOOSE y \in S : TRUE IN f[x] + SumOver(f, S \ {x})
Received == SumOver(nreq, Tenants)

\* ids handed out, or about to be handed out to a create in flight
IdsClaimed ==
    LET waiting == {r \in InFlight : r.op = "create" /\ r.pc = "insert_settings"}
    IN  (nextId - 1) + SumOver([r \in waiting |-> CopiesIn(r, reqs)], waiting)

\* ------------------------------------------------------------ create_invoice
\* Invoice(**invoice_data.model_dump(), invoice_number=..., user_id=...)
NewInvoice(id, u, number, p) ==
    [id |-> id, user_id |-> u, invoice_number |-> number,
     invoice_type |-> p.invoice_type, total |-> p.total,
     client_id |-> p.client_id, created_at |-> id]

\* find_one on settings; with a document the number is formatted and the
\* Invoice built before the next await
CreateStart(u, p) ==
    /\ IdsClaimed < MaxInv
    /\ Arrive(u)
    /\ LET found == FindSettings(u) IN
         IF found = {}
         THEN /\ Suspend(Req("create", u, 0, p, "insert_settings", "", ""))
              /\ UNCHANGED <<nextId, resp>>
         ELSE LET doc == CHOOSE d \in found : TRUE IN
              IF ~HasNumbering(doc)
              THEN /\ Respond(u, "create", 0, 500, {})
                   /\ UNCHANGED <<nextId, reqs>>
              ELSE /\ Suspend(Req("create", u, nextId, p, "insert_invoice",
                                  FormatNumber(doc.invoice_prefix, doc.invoice_counter),
                                  ""))
                   /\ nextId' = nextId + 1
                   /\ UNCHANGED resp
    /\ UNCHANGED <<settings, invoices, allocLog>>

\* no settings document was found: insert the defaults and number from them
CreateInsertSettings(r) ==
    /\ r.op = "create" /\ r.pc = "insert_settings"
    /\ settings' = Append(settings, DefaultSettings(r.user))
    /\ Resume(r, [r EXCEPT !.pc = "insert_invoice", !.id = nextId,
                           !.number = FormatNumber(DefaultPrefix, DefaultCounter)])
    /\ nextId' = nextId + 1
    /\ UNCHANGED <<invoices, resp, allocLog, nreq>>

\* db.invoices.insert_one(invoice_dict)
CreateInsertInvoice(r) ==
    /\ r.op = "create" /\ r.pc = "insert_invoice"
    /\ invoices' = invoices \cup {NewInvoice(r.id, r.user, r.number, r.payload)}
    /\ Resume(r, [r EXCEPT !.pc = "inc_counter"])
    /\ UNCHANGED <<settings, nextId, resp, allocLog, nreq>>

\* the increment of the counter, then the Invoice built above is returned
CreateIncCounter(r) ==
    /\ r.op = "create" /\ r.pc = "inc_counter"
    /\ settings' = IncCounter(r.user)
    /\ Return(r)
    /\ Respond(r.user, "create", r.id, 200,
               {NewInvoice(r.id, r.user, r.number, r.payload)})
    /\ LogAlloc(r.user, "create", r.id, r.payload.invoice_type, r.number)
    /\ UNCHANGED <<invoices, nextId, nreq>>

\* ------------------------------------------------------------ update_invoice
\* find_one scoped to the tenant; 404 without a match
UpdateStart(u, id, p) ==
    /\ Arrive(u)
    /\ IF FindInvoice(id, u) = {}
       THEN /\ Respond(u, "update", id, 404, {})
            /\ UNCHANGED reqs
       ELSE /\ Suspend(Req("update", u, id, p, "update_one", "", ""))
            /\ UNCHANGED resp
    /\ UNCHANGED <<settings, invoices, nextId, allocLog>>

\* mutant: the write replaces the document by one built from the payload, so
\* invoice_number and created_at are lost
UpdateWriteReplaces(r) ==
    /\ r.op = "update" /\ r.pc = "update_one"
    /\ invoices' = {IF d \in {x \in invoices : x.id = r.id /\ x.user_id = r.user}
                    THEN [id |-> d.id, user_id |-> d.user_id, invoice_number |-> "",
                          invoice_type |-> r.payload.invoice_type,
                          total |-> r.payload.total,
                          client_id |-> r.payload.client_id, created_at |-> 0]
                    ELSE d : d \in invoices}
    /\ reqs' = (reqs (-) SetToBag({r})) (+) SetToBag({[r EXCEPT !.pc = "refind"]})
    /\ UNCHANGED <<settings, nextId, resp, allocLog, nreq>>

\* update_one({"id": id, "user_id": u}, {"$set": invoice_data.model_dump()})
UpdateWrite(r) ==
    /\ r.op = "update" /\ r.pc = "update_one"
    /\ invoices' = {IF d \in FindInvoice(r.id, r.user)
                    THEN [d EXCEPT !.invoice_type = r.payload.invoice_type,
                                   !.total = r.payload.total,
                                   !.client_id = r.payload.client_id]
                    ELSE d : d \in invoices}
    /\ Resume(r, [r EXCEPT !.pc = "refind"])
    /\ UNCHANGED <<settings, nextId, resp, allocLog, nreq>>

\* find_one({"id": id}) and return it; updated_invoice.get on None raises
UpdateRefind(r) ==
    /\ r.op = "update" /\ r.pc = "refind"
    /\ Return(r)
    /\ IF FindInvoiceById(r.id) = {}
       THEN Respond(r.user, "update", r.id, 500, {})
       ELSE Respond(r.user, "update", r.id, 200, FindInvoiceById(r.id))
    /\ UNCHANGED <<settings, invoices, nextId, allocLog, nreq>>

\* ------------------------------------------------------------ delete_invoice
\* mutant: the tenant is missing from the filter of delete_one
DeleteInvoiceAnyTenant(u, id) ==
    /\ nreq' = [nreq EXCEPT ![u] = @ + 1]
    /\ invoices' = {d \in invoices : d.id # id}
    /\ IF {d \in invoices : d.id = id /\ d.user_id = u} = {}
       THEN resp' = [resp EXCEPT ![u] = [op |-> "delete", id |-> id, status |-> 404, ret |-> {}]]
       ELSE resp' = [resp EXCEPT ![u] = [op |-> "delete", id |-> id, status |-> 200, ret |-> {}]]
    /\ UNCHANGED <<settings, reqs, nextId, allocLog>>

\* mutant: a delete gives the number back by decrementing the counter
DeleteInvoiceReleasesNumber(u, id) ==
    /\ nreq' = [nreq EXCEPT ![u] = @ + 1]
    /\ invoices' = {d \in invoices : ~(d.id = id /\ d.user_id = u)}
    /\ settings' = IF {d \in invoices : d.id = id /\ d.user_id = u} = {}
                   THEN settings
                   ELSE [k \in 1..Len(settings) |->
                           IF settings[k].user_id = u
                           THEN [settings[k] EXCEPT !.invoice_counter = @ - 1]
                           ELSE settings[k]]
    /\ IF {d \in invoices : d.id = id /\ d.user_id = u} = {}
       THEN resp' = [resp EXCEPT ![u] = [op |-> "delete", id |-> id, status |-> 404, ret |-> {}]]
       ELSE resp' = [resp EXCEPT ![u] = [op |-> "delete", id |-> id, status |-> 200, ret |-> {}]]
    /\ UNCHANGED <<reqs, nextId, allocLog>>

\* delete_one({"id": id, "user_id": u}); 404 when deleted_count is 0
DeleteInvoice(u, id) ==
    /\ Arrive(u)
    /\ invoices' = invoices \ FindInvoice(id, u)
    /\ IF FindInvoice(id, u) = {}
       THEN Respond(u, "delete", id, 404, {})
       ELSE Respond(u, "delete", id, 200, {})
    /\ UNCHANGED <<settings, reqs, nextId, allocLog>>

\* ---------------------------------------------- convert_quotation_to_invoice
\* find_one scoped to the tenant and to invoice_type quotation; 404 without
ConvertStart(u, id) ==
    /\ Arrive(u)
    /\ IF FindQuotation(id, u) = {}
       THEN /\ Respond(u, "convert", id, 404, {})
            /\ UNCHANGED reqs
       ELSE /\ Suspend(Req("convert", u, id, NoPayload, "find_settings", "",
                           (CHOOSE d \in FindQuotation(id, u) : TRUE).invoice_number))
            /\ UNCHANGED resp
    /\ UNCHANGED <<settings, invoices, nextId, allocLog>>

\* find_one on settings and the formatting of the number; no get-or-create:
\* subscripting None, or a missing field, raises
ConvertFindSettings(r) ==
    /\ r.op = "convert" /\ r.pc = "find_settings"
    /\ LET found == FindSettings(r.user) IN
         IF found = {} \/ \E d \in found : ~HasNumbering(d)
         THEN /\ Return(r)
              /\ Respond(r.user, "convert", r.id, 500, {})
         ELSE LET doc == CHOOSE d \in found : TRUE IN
              /\ Resume(r, [r EXCEPT
                              !.pc = "update_invoice",
                              !.number = FormatNumber(doc.invoice_prefix,
                                                      doc.invoice_counter)])
              /\ UNCHANGED resp
    /\ UNCHANGED <<settings, invoices, nextId, allocLog, nreq>>

\* mutant: the write sets the number and leaves invoice_type
ConvertUpdateInvoiceNumberOnly(r) ==
    /\ r.op = "convert" /\ r.pc = "update_invoice"
    /\ invoices' = {IF d \in {x \in invoices : x.id = r.id}
                    THEN [d EXCEPT !.invoice_number = r.number]
                    ELSE d : d \in invoices}
    /\ reqs' = (reqs (-) SetToBag({r})) (+) SetToBag({[r EXCEPT !.pc = "inc_counter"]})
    /\ UNCHANGED <<settings, nextId, resp, allocLog, nreq>>

\* mutant: the write also clears the total
ConvertUpdateInvoiceClearsTotal(r) ==
    /\ r.op = "convert" /\ r.pc = "update_invoice"
    /\ invoices' = {IF d \in {x \in invoices : x.id = r.id}
                    THEN [d EXCEPT !.invoice_type = "invoice",
                                   !.invoice_number = r.number, !.total = 0]
                    ELSE d : d \in invoices}
    /\ reqs' = (reqs (-) SetToBag({r})) (+) SetToBag({[r EXCEPT !.pc = "inc_counter"]})
    /\ UNCHANGED <<settings, nextId, resp, allocLog, nreq>>

\* update_one({"id": id}, {"$set": {"invoice_type": "invoice", "invoice_number": n}})
ConvertUpdateInvoice(r) ==
    /\ r.op = "convert" /\ r.pc = "update_invoice"
    /\ invoices' = {IF d \in FindInvoiceById(r.id)
                    THEN [d EXCEPT !.invoice_type = "invoice",
                                   !.invoice_number = r.number]
                    ELSE d : d \in invoices}
    /\ Resume(r, [r EXCEPT !.pc = "inc_counter"])
    /\ UNCHANGED <<settings, nextId, resp, allocLog, nreq>>

\* the increment of the counter
ConvertIncCounter(r) ==
    /\ r.op = "convert" /\ r.pc = "inc_counter"
    /\ settings' = IncCounter(r.user)
    /\ Resume(r, [r EXCEPT !.pc = "refind"])
    /\ UNCHANGED <<invoices, nextId, resp, allocLog, nreq>>

\* find_one({"id": id}) and return it; updated_invoice.get on None raises
ConvertRefind(r) ==
    /\ r.op = "convert" /\ r.pc = "refind"
    /\ Return(r)
    /\ IF FindInvoiceById(r.id) = {}
       THEN /\ Respond(r.user, "convert", r.id, 500, {})
            /\ UNCHANGED allocLog
       ELSE /\ Respond(r.user, "convert", r.id, 200, FindInvoiceById(r.id))
            /\ LogAlloc(r.user, "convert", r.id, "invoice", r.number)
    /\ UNCHANGED <<settings, invoices, nextId, nreq>>

\* ------------------------------------------------- get_invoice, get_invoices
GetInvoice(u, id) ==
    /\ Arrive(u)
    /\ IF FindInvoice(id, u) = {}
       THEN Respond(u, "get", id, 404, {})
       ELSE Respond(u, "get", id, 200, FindInvoice(id, u))
    /\ UNCHANGED <<settings, invoices, reqs, nextId, allocLog>>

GetInvoices(u) ==
    /\ Arrive(u)
    /\ Respond(u, "list", 0, 200, ListInvoices(u))
    /\ UNCHANGED <<settings, invoices, reqs, nextId, allocLog>>

\* ------------------------------------------------------------ update_settings
\* the bodies PUT /settings is driven with: the keys sent and their values
SettingsPayload(keys, prefix, counter, company) ==
    [has |-> keys, invoice_prefix |-> prefix, invoice_counter |-> counter,
     company_name |-> company]

SettingsPayloads ==
    { SettingsPayload({"company_name"}, "", 0, "ACME"),
      SettingsPayload(SettingsKeys, "INV", 1, "IMAGICITY UPDATED"),
      SettingsPayload({"invoice_prefix"}, "QTN", 0, "") }

\* {"$set": data} on one document
SetDoc(doc, data) ==
    [user_id |-> doc.user_id,
     has |-> doc.has \cup data.has,
     invoice_prefix |-> IF "invoice_prefix" \in data.has
                        THEN data.invoice_prefix ELSE doc.invoice_prefix,
     invoice_counter |-> IF "invoice_counter" \in data.has
                         THEN data.invoice_counter ELSE doc.invoice_counter,
     company_name |-> IF "company_name" \in data.has
                      THEN data.company_name ELSE doc.company_name]

\* the document an upsert inserts: the filter's fields and the $set fields only
UpsertDoc(u, data) ==
    SetDoc([user_id |-> u, has |-> {}, invoice_prefix |-> "",
            invoice_counter |-> 0, company_name |-> ""], data)

\* mutant: the tenant is missing from the filter, so the first settings
\* document of the collection is the one written
UpdateSettingsAnyTenant(u, data) ==
    /\ nreq' = [nreq EXCEPT ![u] = @ + 1]
    /\ settings' = IF settings = <<>>
                   THEN Append(settings, UpsertDoc(u, data))
                   ELSE [settings EXCEPT ![1] = SetDoc(@, data)]
    /\ resp' = [resp EXCEPT ![u] = [op |-> "update_settings", id |-> 0,
                                     status |-> 200, ret |-> {}]]
    /\ UNCHANGED <<invoices, reqs, nextId, allocLog>>

\* update_one({"user_id": u}, {"$set": settings_data}, upsert=True)
UpdateSettings(u, data) ==
    /\ Arrive(u)
    /\ settings' = IF SettingsMatches(u) = {}
                   THEN Append(settings, UpsertDoc(u, data))
                   ELSE [settings EXCEPT ![Min(SettingsMatches(u))] = SetDoc(@, data)]
    /\ Respond(u, "update_settings", 0, 200, {})
    /\ UNCHANGED <<invoices, reqs, nextId, allocLog>>

\* --------------------------------------------------------- send_invoice_email
\* db.clients.find_one({"id": client_id}): no tenant in the filter
FindClient(cid) == {c \in clients : c.id = cid}

\* find_one on invoices scoped to the tenant; 404 without a match
SendEmailStart(u, id) ==
    /\ Arrive(u)
    /\ IF FindInvoice(id, u) = {}
       THEN /\ Respond(u, "send_email", id, 404, {})
            /\ UNCHANGED reqs
       ELSE LET invoice == CHOOSE d \in FindInvoice(id, u) : TRUE IN
            /\ Suspend(Req("send_email", u, id,
                           [invoice_type |-> invoice.invoice_type,
                            total |-> invoice.total,
                            client_id |-> invoice.client_id],
                           "find_client", invoice.invoice_number, ""))
            /\ UNCHANGED resp
    /\ UNCHANGED <<settings, invoices, nextId, allocLog>>

\* find_one on clients by invoice["client_id"]; 400 without a client or
\* without an e-mail address
SendEmailFindClient(r) ==
    /\ r.op = "send_email" /\ r.pc = "find_client"
    /\ LET found == FindClient(r.payload.client_id) IN
         IF found = {} \/ \E c \in found : c.email = ""
         THEN /\ Return(r)
              /\ Respond(r.user, "send_email", r.id, 400, {})
         ELSE /\ Resume(r, [r EXCEPT !.pc = "find_settings",
                                     !.old = (CHOOSE c \in found : TRUE).email])
              /\ UNCHANGED resp
    /\ UNCHANGED <<settings, invoices, nextId, allocLog, nreq>>

\* find_one on settings, then the message is built: settings.get on None raises
SendEmailFindSettings(r) ==
    /\ r.op = "send_email" /\ r.pc = "find_settings"
    /\ IF FindSettings(r.user) = {}
       THEN /\ Return(r)
            /\ Respond(r.user, "send_email", r.id, 500, {})
       ELSE /\ Resume(r, [r EXCEPT !.pc = "smtp"])
            /\ UNCHANGED resp
    /\ UNCHANGED <<settings, invoices, nextId, allocLog, nreq>>

\* send_email_smtp(client['email'], ...): the message goes out to that address
\* and the response names it as the recipient, or the SMTP exchange fails (500)
SendEmailSmtp(r) ==
    /\ r.op = "send_email" /\ r.pc = "smtp"
    /\ Return(r)
    /\ \E sent \in BOOLEAN :
          IF sent
          THEN Respond(r.user, "send_email", r.id, 200,
                       {c \in clients : c.email = r.old})
          ELSE Respond(r.user, "send_email", r.id, 500, {})
    /\ UNCHANGED <<settings, invoices, nextId, allocLog, nreq>>

\* --------------------------------------------------------------- get_settings
\* find_one on settings: the document found is returned, and without one the
\* handler goes on to insert the defaults
GetSettingsStart(u) ==
    /\ Arrive(u)
    /\ IF FindSettings(u) = {}
       THEN /\ Suspend(Req("get_settings", u, 0, NoPayload, "insert_settings", "", ""))
            /\ UNCHANGED resp
       ELSE /\ Respond(u, "get_settings", 0, 200, FindSettings(u))
            /\ UNCHANGED reqs
    /\ UNCHANGED <<settings, invoices, nextId, allocLog>>

\* insert_one of the defaults, which are returned
GetSettingsInsert(r) ==
    /\ r.op = "get_settings" /\ r.pc = "insert_settings"
    /\ settings' = Append(settings, DefaultSettings(r.user))
    /\ Return(r)
    /\ Respond(r.user, "get_settings", 0, 200, {DefaultSettings(r.user)})
    /\ UNCHANGED <<invoices, nextId, allocLog, nreq>>

\* ------------------------------------------------------------ store failures
\* The handlers catch nothing: when an awaited store operation raises, the
\* operation has written nothing, the handler is abandoned where it stands and
\* the request is answered 500.
\* the first store operation of a create or convert request raises
FirstOpFails(u, op, id) ==
    /\ Arrive(u)
    /\ Respond(u, op, id, 500, {})
    /\ UNCHANGED <<settings, invoices, reqs, nextId, allocLog>>

\* the store operation a create or convert in flight is about to run raises
StoreFails(r) ==
    /\ r.op \in {"create", "convert"}
    /\ Return(r)
    /\ Respond(r.user, r.op, r.id, 500, {})
    /\ UNCHANGED <<settings, invoices, nextId, allocLog, nreq>>

\* ---------------------------------------------------------------- initial
\* No invoice yet; a tenant either signed up (default settings) or has no
\* settings document yet.
Init ==
    /\ \E S \in SUBSET Tenants :
         settings = IF S = {} THEN <<>>
                    ELSE IF S = Tenants THEN <<DefaultSettings("u1"), DefaultSettings("u2")>>
                    ELSE <<DefaultSettings(CHOOSE u \in S : TRUE)>>
    /\ invoices = {}
    /\ reqs = EmptyBag
    /\ nextId = 1
    /\ resp = [u \in Tenants |-> NoResponse]
    /\ allocLog = [u \in Tenants |-> <<>>]
    /\ nreq = [u \in Tenants |-> 0]

\* the ids a caller can name: those handed out so far (an id whose invoice is
\* not inserted yet, or is deleted, is an id that matches nothing)
KnownIds == 1..(nextId - 1)

\* a create, update or convert in flight runs to its next await
CreateStep ==
    \/ \E r \in InFlight : CreateInsertSettings(r)
    \/ \E r \in InFlight : CreateInsertInvoice(r)
    \/ \E r \in InFlight : CreateIncCounter(r)

UpdateStep ==
    \/ \E r \in InFlight : UpdateWrite(r)
    \/ \E r \in InFlight : UpdateRefind(r)

ConvertStep ==
    \/ \E r \in InFlight : ConvertFindSettings(r)
    \/ \E r \in InFlight : ConvertUpdateInvoice(r)
    \/ \E r \in InFlight : ConvertIncCounter(r)
    \/ \E r \in InFlight : ConvertRefind(r)

\* requests of all tenants arrive at any time and interleave
Next ==
    \/ Received < MaxReq /\ \E u \in Tenants, p \in CreatePayloads : CreateStart(u, p)
    \/ Received < MaxReq /\
          \E u \in Tenants, id \in KnownIds, p \in UpdatePayloads : UpdateStart(u, id, p)
    \/ Received < MaxReq /\ \E u \in Tenants, id \in KnownIds : DeleteInvoice(u, id)
    \/ Received < MaxReq /\ \E u \in Tenants, id \in KnownIds : ConvertStart(u, id)
    \/ Received < MaxReq /\ \E u \in Tenants, id \in KnownIds : GetInvoice(u, id)
    \/ Received < MaxReq /\ \E u \in Tenants : GetInvoices(u)
    \/ Received < MaxReq /\
          \E u \in Tenants, data \in SettingsPayloads : UpdateSettings(u, data)
    \/ CreateStep
    \/ UpdateStep
    \/ ConvertStep

Spec == Init /\ [][Next]_vars

\* the requests of one tenant run one at a time (those of different tenants
\* interleave); the four invoice operations only
SeqNext ==
    \/ Received < MaxSeqReq /\
          \E u \in Tenants, p \in CreatePayloads : Idle(u) /\ CreateStart(u, p)
    \/ Received < MaxSeqReq /\
          \E u \in Tenants, id \in KnownIds, p \in UpdatePayloads :
              Idle(u) /\ UpdateStart(u, id, p)
    \/ Received < MaxSeqReq /\
          \E u \in Tenants, id \in KnownIds : Idle(u) /\ DeleteInvoice(u, id)
    \/ Received < MaxSeqReq /\
          \E u \in Tenants, id \in KnownIds : Idle(u) /\ ConvertStart(u, id)
    \/ CreateStep
    \/ UpdateStep
    \/ ConvertStep

SeqSpec == Init /\ [][SeqNext]_vars

\* create and convert requests only, arriving at any time
AllocNext ==
    \/ Received < MaxAlloc /\ \E u \in Tenants, p \in CreatePayloads : CreateStart(u, p)
    \/ Received < MaxAlloc /\ \E u \in Tenants, id \in KnownIds : ConvertStart(u, id)
    \/ CreateStep
    \/ ConvertStep

AllocSpec == Init /\ [][AllocNext]_vars

\* the requests that create the settings document of a tenant on first access
\* (get settings, create invoice, update settings), arriving at any time
FirstAccessNext ==
    \/ Received < MaxFirst /\ \E u \in Tenants, p \in CreatePayloads : CreateStart(u, p)
    \/ Received < MaxFirst /\ \E u \in Tenants : GetSettingsStart(u)
    \/ Received < MaxFirst /\
          \E u \in Tenants, data \in SettingsPayloads : UpdateSettings(u, data)
    \/ CreateStep
    \/ \E r \in InFlight : GetSettingsInsert(r)

FirstAccessSpec == Init /\ [][FirstAccessNext]_vars

\* create and convert requests, those of one tenant one at a time, any store
\* operation of which may fail
FailNext ==
    \/ Received < MaxFailReq /\
          \E u \in Tenants, p \in CreatePayloads : Idle(u) /\ CreateStart(u, p)
    \/ Received < MaxFailReq /\
          \E u \in Tenants, id \in KnownIds : Idle(u) /\ ConvertStart(u, id)
    \/ Received < MaxFailReq /\
          \E u \in Tenants : Idle(u) /\ FirstOpFails(u, "create", 0)
    \/ Received < MaxFailReq /\
          \E u \in Tenants, id \in KnownIds : Idle(u) /\ FirstOpFails(u, "convert", id)
    \/ \E r \in InFlight : StoreFails(r)
    \/ CreateStep
    \/ ConvertStep

FailSpec == Init /\ [][FailNext]_vars

\* the invoice operations, reads included, those of one tenant one at a time
RoundTripNext ==
    \/ Received < MaxTripReq /\
          \E u \in Tenants, p \in CreatePayloads : Idle(u) /\ CreateStart(u, p)
    \/ Received < MaxTripReq /\
          \E u \in Tenants, id \in KnownIds, p \in UpdatePayloads :
              Idle(u) /\ UpdateStart(u, id, p)
    \/ Received < MaxTripReq /\
          \E u \in Tenants, id \in KnownIds : Idle(u) /\ DeleteInvoice(u, id)
    \/ Received < MaxTripReq /\
          \E u \in Tenants, id \in KnownIds : Idle(u) /\ ConvertStart(u, id)
    \/ Received < MaxTripReq /\
          \E u \in Tenants, id \in KnownIds : Idle(u) /\ GetInvoice(u, id)
    \/ Received < MaxTripReq /\ \E u \in Tenants : Idle(u) /\ GetInvoices(u)
    \/ CreateStep
    \/ UpdateStep
    \/ ConvertStep

RoundTripSpec == Init /\ [][RoundTripNext]_vars

\* the requests that read or write the numbering state of a tenant (create,
\* convert, get settings, update settings), arriving at any time
NumberingNext ==
    \/ Received < MaxNumReq /\ \E u \in Tenants, p \in CreatePayloads : CreateStart(u, p)
    \/ Received < MaxNumReq /\ \E u \in Tenants, id \in KnownIds : ConvertStart(u, id)
    \/ Received < MaxNumReq /\ \E u \in Tenants : GetSettingsStart(u)
    \/ Received < MaxNumReq /\
          \E u \in Tenants, data \in SettingsPayloads : UpdateSettings(u, data)
    \/ CreateStep
    \/ ConvertStep
    \/ \E r \in InFlight : GetSettingsInsert(r)

NumberingSpec == Init /\ [][NumberingNext]_vars

SendEmailStep ==
    \/ \E r \in InFlight : SendEmailFindClient(r)
    \/ \E r \in InFlight : SendEmailFindSettings(r)
    \/ \E r \in InFlight : SendEmailSmtp(r)

\* invoices are created for any client id and sent by e-mail, at any time
EmailNext ==
    \/ Received < MaxMailReq /\ \E u \in Tenants, p \in EmailPayloads : CreateStart(u, p)
    \/ Received < MaxMailReq /\ \E u \in Tenants, id \in KnownIds : SendEmailStart(u, id)
    \/ CreateStep
    \/ SendEmailStep

EmailSpec == Init /\ [][EmailNext]_vars

\* ------------------------------------------------------------------ claims
\* the invoice_numbers of the allocations logged for tenant u
Issued(u) == {allocLog[u][k].number : k \in 1..Len(allocLog[u])}
\* the successful conversions logged for tenant u on invoice id
Conversions(u, id) ==
    {k \in 1..Len(allocLog[u]) : allocLog[u][k].op = "convert" /\ allocLog[u][k].id = id}

\* C1 (SeqSpec): when the requests of a tenant run one at a time and are
\* create, update, delete and convert requests, no two invoices stored for that
\* tenant carry the same invoice_number.
SequentialUniqueness ==
    \A d \in invoices, e \in invoices :
        (d.user_id = e.user_id /\ d.id # e.id) => d.invoice_number # e.invoice_number

\* a tenant holds three invoices, one of them converted from a quotation
SequentialUniquenessWitness ==
    \E u \in Tenants :
        /\ Cardinality(ListInvoices(u)) = 3
        /\ \E d \in ListInvoices(u) : Conversions(u, d.id) # {}

\* C2 (AllocSpec): when the create and convert requests of a tenant overlap and
\* have all completed, the N numbers they assigned are pairwise distinct and
\* are exactly the N numbers counted from the tenant's initial counter.
ConcurrentAllocation ==
    \A u \in Tenants :
        Idle(u) =>
            /\ Cardinality(Issued(u)) = Len(allocLog[u])
            /\ Issued(u) = {FormatNumber(DefaultPrefix, DefaultCounter + k - 1) :
                              k \in 1..Len(allocLog[u])}

\* C3 (SeqSpec): when the requests of tenant u run one at a time, its k-th
\* successful allocation carries the number formed from the initial counter
\* plus k - 1, whatever the other tenants allocate in between.
Sequentiality ==
    \A u \in Tenants : \A k \in 1..Len(allocLog[u]) :
        allocLog[u][k].number = FormatNumber(DefaultPrefix, DefaultCounter + k - 1)

\* one tenant allocated three times, a conversion among them, and the other
\* tenant allocated in between
SequentialityWitness ==
    \E u \in Tenants, v \in Tenants :
        /\ u # v
        /\ Len(allocLog[u]) = 3
        /\ \E k \in 1..3 : allocLog[u][k].op = "convert"
        /\ Len(allocLog[v]) = 1
        /\ allocLog[v][1].id < allocLog[u][3].id

\* tenant u ran exactly: create invoice, create invoice, create quotation,
\* convert that quotation
ScenarioRan(u) ==
    /\ nreq[u] = 4
    /\ Idle(u)
    /\ Len(allocLog[u]) = 4
    /\ \A k \in 1..3 : allocLog[u][k].op = "create"
    /\ allocLog[u][1].type = "invoice"
    /\ allocLog[u][2].type = "invoice"
    /\ allocLog[u][3].type = "quotation"
    /\ allocLog[u][4].op = "convert"
    /\ allocLog[u][4].id = allocLog[u][3].id

\* C4 as stated (SeqSpec): after the reference scenario the two invoices carry
\* INV-0001 and INV-0002 and the converted quotation carries INV-0003 with
\* invoice_type invoice.
ReferenceScenarioAsStated ==
    \A u \in Tenants :
        ScenarioRan(u) =>
            /\ allocLog[u][1].number = "INV-0001"
            /\ allocLog[u][2].number = "INV-0002"
            /\ \E d \in FindInvoice(allocLog[u][3].id, u) :
                  d.invoice_number = "INV-0003" /\ d.invoice_type = "invoice"

\* C4 amended (SeqSpec): after the reference scenario the two invoices carry
\* INV-0001 and INV-0002, the quotation was created carrying INV-0003, and the
\* converted quotation carries INV-0004 with invoice_type invoice.
ReferenceScenario ==
    \A u \in Tenants :
        ScenarioRan(u) =>
            /\ allocLog[u][1].number = "INV-0001"
            /\ allocLog[u][2].number = "INV-0002"
            /\ allocLog[u][3].number = "INV-0003"
            /\ \E d \in FindInvoice(allocLog[u][3].id, u) :
                  d.invoice_number = "INV-0004" /\ d.invoice_type = "invoice"

ReferenceScenarioWitness == \E u \in Tenants : ScenarioRan(u)

\* the frames of the requests of tenant u in flight
FramesOf(u) == [r \in {x \in InFlight : x.user = u} |-> CopiesIn(r, reqs)]

\* the step is one of a request of tenant u: the request arrives, or its frame
\* moves to the next await or returns
ActsFor(u) == nreq'[u] # nreq[u] \/ FramesOf(u)' # FramesOf(u)

\* C5 (Spec): under any interleaving, only the steps of requests of tenant a
\* change the invoices of a (so no update, delete or convert scoped to another
\* tenant changes or removes them, even when it names the id of an invoice of
\* a), and every response sent to a tenant holds invoices of that tenant only.
TenantIsolation ==
    [][/\ invoices' # invoices =>
             \A a \in Tenants : ListInvoices(a)' # ListInvoices(a) => ActsFor(a)
       /\ resp' # resp =>
             \A a \in Tenants : \A d \in resp'[a].ret : d.user_id = a]_vars

\* a tenant named the id of an invoice another tenant holds, in an update, a
\* delete, a convert or a get, while that other tenant had a request in flight
TenantIsolationWitness ==
    \E a \in Tenants, b \in Tenants :
        /\ a # b
        /\ resp[b].op \in {"update", "delete", "convert", "get"}
        /\ resp[b].status = 404
        /\ \E d \in ListInvoices(a) : d.id = resp[b].id /\ d.invoice_type = "quotation"
        /\ ~Idle(a)

\* C6 (AllocSpec): of the convert requests of one tenant on one quotation, run
\* concurrently, at most one returns 200, so the quotation is renumbered once.
ExactlyOnceConversion ==
    \A u \in Tenants : \A id \in KnownIds : Cardinality(Conversions(u, id)) <= 1

\* C7 (SeqSpec): over every sequence of create, update, delete and convert
\* requests, the invoice_type of a stored invoice changes only from quotation
\* to invoice and only by the write of a convert request; an invoice never
\* becomes a quotation again.
InvoiceIsTerminal ==
    [][\A d \in invoices : \A e \in invoices' :
          (e.id = d.id /\ e.invoice_type # d.invoice_type) =>
              /\ d.invoice_type = "quotation"
              /\ e.invoice_type = "invoice"
              /\ \E r \in InFlight : ConvertUpdateInvoice(r)]_vars

\* C8 (SeqSpec): when the last response to tenant u is the 200 of a convert on
\* id and the next request of u is a convert on the same id, that request is
\* answered 404 and leaves every invoice and every settings document unchanged.
RepeatedConversionFails ==
    [][\A u \in Tenants : \A id \in KnownIds :
          ( /\ resp[u].op = "convert" /\ resp[u].id = id /\ resp[u].status = 200
            /\ Idle(u)
            /\ ConvertStart(u, id) ) =>
              /\ resp'[u] = Response("convert", id, 404, {})
              /\ Idle(u)'
              /\ invoices' = invoices
              /\ settings' = settings]_vars

\* the third request of a tenant, a convert answered 404, followed the
\* successful convert of the same quotation
RepeatedConversionFailsWitness ==
    \E u \in Tenants :
        /\ nreq[u] = 3
        /\ Len(allocLog[u]) = 2
        /\ allocLog[u][2].op = "convert"
        /\ resp[u] = Response("convert", allocLog[u][2].id, 404, {})

\* C9 (SeqSpec): when a convert that ran without overlapping requests of its
\* tenant returns 200, the stored invoice has invoice_type invoice and an
\* invoice_number different from the one the quotation carried and from that
\* of every other invoice of the tenant, and the response holds that invoice.
ConversionResult ==
    [][\A r \in InFlight :
          (ConvertRefind(r) /\ resp'[r.user].status = 200) =>
              \E d \in invoices' :
                  /\ d.id = r.id /\ d.user_id = r.user
                  /\ resp'[r.user].ret = {d}
                  /\ d.invoice_type = "invoice"
                  /\ d.invoice_number = r.number
                  /\ d.invoice_number # r.old
                  /\ \A e \in ListInvoices(r.user)' :
                        e.id # d.id => e.invoice_number # d.invoice_number]_vars

\* a convert returned 200 to a tenant that holds two other invoices
ConversionResultWitness ==
    \E u \in Tenants :
        /\ resp[u].op = "convert" /\ resp[u].status = 200
        /\ Cardinality(ListInvoices(u)) = 3
        /\ resp[u].ret \subseteq invoices

\* the invoice_counter of the settings document found for tenant u
Counter(u) == {d.invoice_counter : d \in {x \in FindSettings(u) : "invoice_counter" \in x.has}}

\* C10 (Spec): under every interleaving of requests, settings updates with any
\* body included, the invoice_counter of a tenant never decreases.
CounterNeverDecreases ==
    [][\A u \in Tenants : \A c \in Counter(u) : \A c2 \in Counter(u)' : c2 >= c]_vars

\* C11 (FirstAccessSpec): under any interleaving of the first requests of a
\* tenant (get settings, create invoice, update settings), the settings
\* collection never holds more than one document of that tenant.
OneSettingsRecord ==
    \A u \in Tenants : Cardinality(SettingsMatches(u)) <= 1

\* C12 (AllocSpec): when the create and convert requests of a tenant, in any
\* interleaving, have all completed and N of them returned 200, the
\* invoice_counter of the tenant is its initial value plus N, whether or not
\* the N numbers are distinct.
CounterAdvancesOncePerAllocation ==
    \A u \in Tenants :
        (Idle(u) /\ Len(allocLog[u]) > 0) =>
            Counter(u) = {DefaultCounter + Len(allocLog[u])}

\* three overlapping allocations of a tenant completed and did not hand out
\* three distinct numbers
CounterAdvancesOncePerAllocationWitness ==
    \E u \in Tenants :
        /\ Idle(u)
        /\ Len(allocLog[u]) = 3
        /\ Cardinality(Issued(u)) < 3

\* C13 (SeqSpec): the write of an update request leaves id, user_id,
\* invoice_number and created_at of the invoice as they were, sets the payload
\* fields to the submitted values and changes no other invoice and no settings
\* document; the 200 response holds the stored invoice, carrying the submitted
\* values.
UpdatePreservesIdentity ==
    [][\A r \in InFlight :
          /\ UpdateWrite(r) =>
                /\ settings' = settings
                /\ \A d \in FindInvoice(r.id, r.user) :
                      \E e \in invoices' :
                          /\ e.id = d.id /\ e.user_id = d.user_id
                          /\ e.invoice_number = d.invoice_number
                          /\ e.created_at = d.created_at
                          /\ e.invoice_type = r.payload.invoice_type
                          /\ e.total = r.payload.total
                          /\ e.client_id = r.payload.client_id
                          /\ invoices' = (invoices \ {d}) \cup {e}
          /\ (UpdateRefind(r) /\ resp'[r.user].status = 200) =>
                /\ settings' = settings
                /\ \E e \in invoices' :
                      /\ resp'[r.user].ret = {e}
                      /\ e.id = r.id /\ e.user_id = r.user
                      /\ e.invoice_type = r.payload.invoice_type
                      /\ e.total = r.payload.total]_vars

\* an update of the second invoice of a tenant returned it with the submitted
\* total, its number and the tenant's counter as they were
UpdatePreservesIdentityWitness ==
    \E u \in Tenants :
        /\ resp[u].op = "update" /\ resp[u].status = 200
        /\ \E d \in resp[u].ret :
              d.total = 200 /\ d.invoice_number = "INV-0002" /\ d \in invoices
        /\ Counter(u) = {3}

\* C14 (SeqSpec): in every create and convert request the counter is advanced
\* before the invoice is written, so no stored invoice carries the number
\* formed from the counter its tenant's settings hold at that moment.
AllocateBeforePersist ==
    \A d \in invoices : \A x \in FindSettings(d.user_id) :
        HasNumbering(x) =>
            d.invoice_number # FormatNumber(x.invoice_prefix, x.invoice_counter)

\* C15 (FailSpec): when store operations of create and convert requests fail,
\* the successful allocation a tenant made last (its requests running one at a
\* time) carries a number that no other stored invoice of the tenant carries.
FailuresCauseGapsOnly ==
    \A u \in Tenants :
        Len(allocLog[u]) > 0 =>
            LET last == allocLog[u][Len(allocLog[u])] IN
            \A d \in ListInvoices(u) :
                d.id # last.id => d.invoice_number # last.number

\* C16 (FirstAccessSpec): a settings update for a tenant without a settings
\* document stores the given fields over the defaults, so every create request
\* that follows finds invoice_prefix and invoice_counter and is answered 200.
UpsertCreatesDefaults ==
    \A u \in Tenants :
        resp[u].op = "create" =>
            /\ resp[u].status = 200
            /\ \A k \in SettingsMatches(u) : HasNumbering(settings[k])

\* C17 (SeqSpec): an update or a delete request on an id that matches no
\* invoice of the calling tenant, and a convert request on an id that matches
\* no quotation of the calling tenant, is answered 404, is over with that, and
\* leaves every invoice and every settings document unchanged.
NotFoundChangesNothing ==
    [][\A u \in Tenants : \A id \in KnownIds :
          /\ ( /\ FindInvoice(id, u) = {}
               /\ \/ \E p \in UpdatePayloads : UpdateStart(u, id, p)
                  \/ DeleteInvoice(u, id) ) =>
                /\ resp'[u].status = 404 /\ resp'[u].id = id
                /\ resp'[u].op \in {"update", "delete"}
                /\ invoices' = invoices /\ settings' = settings /\ reqs' = reqs
          /\ (FindQuotation(id, u) = {} /\ ConvertStart(u, id)) =>
                /\ resp'[u] = Response("convert", id, 404, {})
                /\ invoices' = invoices /\ settings' = settings /\ reqs' = reqs]_vars

\* a delete was answered 404 on the id of an invoice another tenant holds, and
\* a convert was answered 404 on the id of an invoice (not a quotation) of the
\* calling tenant
NotFoundChangesNothingWitness ==
    \E a \in Tenants, b \in Tenants :
        /\ a # b
        /\ resp[b].op = "delete" /\ resp[b].status = 404
        /\ FindInvoice(resp[b].id, a) # {}
        /\ resp[a].op = "convert" /\ resp[a].status = 404
        /\ \E d \in FindInvoice(resp[a].id, a) : d.invoice_type = "invoice"

\* the create requests of tenant u that returned 200
Created(u) == {allocLog[u][k] : k \in {j \in 1..Len(allocLog[u]) : allocLog[u][j].op = "create"}}

\* the stored invoice d carries the number create returned it with
NumberKept(a, d) == d.invoice_number = a.number

\* ... or the number a convert of it, completed or past its write, gave it
NumberKeptOrConverted(u, a, d) ==
    \/ NumberKept(a, d)
    \/ \E j \in Conversions(u, a.id) : d.invoice_number = allocLog[u][j].number
    \/ \E r \in InFlight :
          /\ r.op = "convert" /\ r.id = a.id /\ r.pc \in {"inc_counter", "refind"}
          /\ d.invoice_number = r.number

\* what a step does to the invoice id that a create of tenant u returned: get
\* and list return it while it is stored; only a delete of u removes it, that
\* delete is answered 200 and removes nothing else; once removed it stays
\* removed, and get and delete are answered 404
RoundTripStep(u, id) ==
    /\ GetInvoice(u, id) =>
          IF FindInvoice(id, u) # {}
          THEN resp'[u].status = 200 /\ resp'[u].ret = FindInvoice(id, u)
          ELSE resp'[u].status = 404
    /\ GetInvoices(u) => FindInvoice(id, u) \subseteq resp'[u].ret
    /\ (FindInvoice(id, u) # {} /\ FindInvoice(id, u)' = {}) =>
          /\ DeleteInvoice(u, id)
          /\ invoices' = invoices \ FindInvoice(id, u)
    /\ (FindInvoice(id, u) # {} /\ DeleteInvoice(u, id)) =>
          /\ resp'[u] = Response("delete", id, 200, {})
          /\ FindInvoice(id, u)' = {}
    /\ FindInvoice(id, u) = {} =>
          /\ FindInvoice(id, u)' = {}
          /\ DeleteInvoice(u, id) => resp'[u].status = 404

ConversionFrame ==
    [][\A r \in InFlight :
          /\ ConvertUpdateInvoice(r) =>
                /\ \A d \in invoices : d.id # r.id => d \in invoices'
                /\ \A d \in FindInvoiceById(r.id) :
                      \E e \in invoices' :
                          /\ e.id = d.id /\ e.user_id = d.user_id
                          /\ e.total = d.total /\ e.created_at = d.created_at
                          /\ e.client_id = d.client_id
                          /\ invoices' = (invoices \ {d}) \cup {e}
          /\ (ConvertFindSettings(r) \/ ConvertIncCounter(r) \/ ConvertRefind(r)) =>
                invoices' = invoices]_vars

\* a convert returned a quotation whose total an update had set, to a tenant
\* that holds another invoice
ConversionFrameWitness ==
    \E u \in Tenants :
        /\ resp[u].op = "convert" /\ resp[u].status = 200
        /\ \E d \in resp[u].ret : d.total = 200 /\ d.invoice_type = "invoice"
        /\ Cardinality(ListInvoices(u)) = 2

\* C20 (Spec): an update or a convert request that interleaves with a delete of
\* the same id is answered 404 or 200 with the invoice, never 500.
DeclaredOutcomesOnly ==
    \A u \in Tenants :
        resp[u].op \in {"update", "convert"} => resp[u].status \in {200, 404}

\* the settings documents of tenant u, in natural order
SettingsOf(u) == SelectSeq(settings, LAMBDA d : d.user_id = u)

NumbersBelow(c) == {FormatNumber(DefaultPrefix, k) : k \in DefaultCounter..(c - 1)}

\* C22 (AllocSpec): under any interleaving of create and convert requests, in
\* every state where no request of tenant u is in flight, each invoice stored
\* for u carries a number formed from a counter value strictly below the
\* invoice_counter of u.
StoredNumbersBehindCounter ==
    \A u \in Tenants :
        (Idle(u) /\ ListInvoices(u) # {}) =>
            /\ Counter(u) # {}
            /\ \A c \in Counter(u) : \A d \in ListInvoices(u) :
                  d.invoice_number \in NumbersBelow(c)

\* overlapping requests of a tenant left it three invoices, two of them with
\* one number, and the counter past all of them
StoredNumbersBehindCounterWitness ==
    \E u \in Tenants :
        /\ Idle(u)
        /\ Cardinality(ListInvoices(u)) = 3
        /\ Cardinality({d.invoice_number : d \in ListInvoices(u)}) = 2
        /\ Counter(u) = {4}

\* C23 (NumberingSpec): in every state where a tenant holds a quotation, the
\* settings document a convert request of that tenant would read exists and
\* holds invoice_prefix and invoice_counter.
ConversionFindsNumbering ==
    \A d \in invoices :
        d.invoice_type = "quotation" =>
            \E x \in FindSettings(d.user_id) : HasNumbering(x)

\* C24 (SeqSpec): a delete request changes no settings document, the number of
\* the invoice it removes is one of the numbers allocated to the tenant, and
\* every allocation of the tenant returns a number that none of its earlier
\* allocations returned; so the number of a deleted invoice is never handed
\* out again.
DeletionLeavesGap ==
    [][\A u \in Tenants :
          /\ \A id \in KnownIds :
                DeleteInvoice(u, id) =>
                    /\ settings' = settings
                    /\ \A d \in FindInvoice(id, u) : d.invoice_number \in Issued(u)
          /\ Len(allocLog'[u]) > Len(allocLog[u]) =>
                allocLog'[u][Len(allocLog'[u])].number \notin Issued(u)]_vars

\* a tenant created an invoice, deleted it and created another one, which
\* carries the next number
DeletionLeavesGapWitness ==
    \E u \in Tenants :
        /\ nreq[u] = 3
        /\ Len(allocLog[u]) = 2
        /\ resp[u].op = "create" /\ resp[u].status = 200
        /\ FindInvoiceById(allocLog[u][1].id) = {}
        /\ \E d \in ListInvoices(u) :
              /\ ListInvoices(u) = {d}
              /\ d.id = allocLog[u][2].id
              /\ d.invoice_number = "INV-0002"
              /\ allocLog[u][1].number = "INV-0001"

\* C25 (EmailSpec): a send-email request of tenant u uses as recipient only a
\* client of u; when the invoice names a client of another tenant the request
\* is answered 400 and no message goes to that client.
EmailStaysInsideTenant ==
    \A u \in Tenants :
        resp[u].op = "send_email" => \A c \in resp[u].ret : c.user_id = u
====
